---- MODULE Spec2Model ----
(***************************************************************************)
(* Traffic-light controller (src/arduino_trafficlight_homework/src/        *)
(* main.cpp): two debounced interrupt handlers and one debounced polled    *)
(* button toggle three mode flags; a 100 ms task recomputes the four LED   *)
(* pins from the flags and the millisecond clock.                          *)
(*                                                                         *)
(* unsigned long is 32 bits wide.  TLC's integers stop at 2^31 - 1, so a   *)
(* 32-bit unsigned value is held exactly as a pair <<hi, lo>> of 16-bit    *)
(* limbs (value = hi * 65536 + lo) and the arithmetic of the source is     *)
(* done limb by limb, modulo 2^32.                                         *)
(***************************************************************************)
EXTENDS Integers, Sequences, FiniteSets, TLC

(***************************************************************************)
(* Program constants                                                       *)
(***************************************************************************)
LED_RED == 5
LED_YELLOW == 6
LED_GREEN == 7
LED_BLINK == 8
LOW == 0
HIGH == 1
debounceDelayMicro == 200000
blinkingDebounceDelay == 50
cycleDuration == 6000
TaskInterval_Slow == 3 * 100
TaskInterval == 100

LedPins == {LED_RED, LED_YELLOW, LED_GREEN, LED_BLINK}
Levels == {LOW, HIGH}

(***************************************************************************)
(* 32-bit unsigned arithmetic on <<hi, lo>>                                *)
(***************************************************************************)
Limb == 65536

\* the unsigned long holding the small natural n (n < 2^31)
ToU32(n) == <<n \div Limb, n % Limb>>

\* a + b (mod 2^32)
U32Add(a, b) ==
  LET lo == a[2] + b[2]
      hi == a[1] + b[1] + (lo \div Limb)
  IN  <<hi % Limb, lo % Limb>>

\* a - b (mod 2^32): unsigned subtraction wraps
U32Sub(a, b) ==
  LET borrow == IF a[2] < b[2] THEN 1 ELSE 0
  IN  <<(a[1] - b[1] - borrow + Limb) % Limb, (a[2] - b[2] + Limb) % Limb>>

U32Lt(a, b) == a[1] < b[1] \/ (a[1] = b[1] /\ a[2] < b[2])
U32Le(a, b) == a = b \/ U32Lt(a, b)

\* a % m for a small modulus m (m <= 32768), as a natural
U32Mod(a, m) == ((a[1] * (Limb % m)) + a[2]) % m

\* a / d for a small divisor d (d <= 32767): long division by limbs
U32Div(a, d) ==
  <<a[1] \div d, (((a[1] % d) * Limb) + a[2]) \div d>>

\* a * 1000 (mod 2^32)
U32Mul1000(a) ==
  LET lo == a[2] * 1000
  IN  <<((a[1] * 1000) + (lo \div Limb)) % Limb, lo % Limb>>

(***************************************************************************)
(* State                                                                   *)
(***************************************************************************)
VARIABLES
  emergencyMode,               \* volatile bool, toggled by emergencyISR
  systemOffMode,               \* volatile bool, toggled by resetISR
  blinkingMode,                \* volatile bool, toggled by pollBlinkingButton
  lastEmergencyInterruptTime,  \* micros() of the last accepted emergency edge
  lastResetInterruptTime,      \* micros() of the last accepted reset edge
  lastBlinkingDebounceTime,    \* millis() of the last accepted blink toggle
  lastBlinkingButtonState,     \* level seen by the previous poll
  cycleStart,                  \* millis() captured by setup()
  pins,                        \* level driven on each LED pin
  buttonBlinking,              \* electrical level of the polled button pin
  clock,                       \* the hardware millisecond counter (32 bit)
  iPreviousMillis,             \* trafficTask: time the last run was due
  pc,                          \* position of the main flow
  wq,                          \* digitalWrite calls the running tick has still to make
  branch,                      \* rule the running (or last) tick selected
  age,                         \* number of clock advances so far
  toggledInTick,               \* a toggle was accepted since the running tick started
  pending,                     \* clock of the oldest accepted toggle no tick has started after
  edgeObs,                     \* the first two edges on the emergency input
  seq,                         \* one observed bounce sequence of the polled button
  wrapped,                     \* per timestamp: its counter wrapped since it was stored
  observer,                    \* which of the observations below this behaviour keeps
  elapsed,                     \* updateTrafficLights: the local of line 140, as last computed
  acceptObs,                   \* the last edge handled, against the true time since an accepted one
  seen,                        \* the mode states that have held since the running tick was entered
  tickNow,                     \* updateTrafficLights: the millis() it read (lines 130, 139)
  iteration,                   \* loop(): whether the counter has ticked during this pass
  usec                         \* microseconds into this millisecond at the last micros() kept

vars == <<emergencyMode, systemOffMode, blinkingMode,
          lastEmergencyInterruptTime, lastResetInterruptTime,
          lastBlinkingDebounceTime, lastBlinkingButtonState, cycleStart,
          pins, buttonBlinking, clock, iPreviousMillis, pc, wq, branch,
          age, toggledInTick, pending, edgeObs, seq, wrapped,
          observer, elapsed, acceptObs, seen, tickNow, iteration, usec>>

flagVars == <<emergencyMode, systemOffMode, blinkingMode>>
stampVars == <<lastEmergencyInterruptTime, lastResetInterruptTime,
               lastBlinkingDebounceTime>>
\* the observations: "edges" records the first two emergency edges (edgeObs),
\* "bounce" one bounce sequence of the polled button (seq), "lag" the toggles
\* a tick has not yet picked up (toggledInTick, pending), "accept" each edge
\* against the true time since the last accepted one (acceptObs), "race" the
\* mode states that hold while a tick runs (seen).  The first three are kept
\* from power-on, "lag" and "race" in the program resumed in mid-cycle and
\* "accept" in the program resumed before a counter wraps.
Observers == {"edges", "bounce", "lag"}
LateObservers == {"lag", "race"}
WrapObservers == {"accept"}

\* millis(): the millisecond counter
millis == clock
\* The microseconds into a millisecond at which the handlers are let read
\* micros(): the first and the last count of a millisecond.  The debounce test
\* of the handlers depends on the microseconds of two reads only through
\* which of them is the larger.
SubMicros == {0, 999}
\* micros(): the 32-bit microsecond counter, read u microseconds into the
\* current millisecond
micros(u) == U32Add(U32Mul1000(clock), ToU32(u))

(***************************************************************************)
(* updateTrafficLights(): the digitalWrite calls of each branch, in source *)
(* order, as <<pin, level>>                                                *)
(***************************************************************************)
\* lines 112-115: system OFF
OffWrites ==
  << <<LED_RED, LOW>>, <<LED_YELLOW, LOW>>, <<LED_GREEN, LOW>>, <<LED_BLINK, LOW>> >>

\* EmergencyWrites without lines 122-124: red is turned on and the others are
\* left as they were
EmergencyWrites_RedOnly == << <<LED_RED, HIGH>> >>

\* lines 121-124: emergency
EmergencyWrites ==
  << <<LED_RED, HIGH>>, <<LED_YELLOW, LOW>>, <<LED_GREEN, LOW>>, <<LED_BLINK, LOW>> >>

\* line 130: bool blinkState = ((millis() / 500) % 2) == 0
BlinkState(now) == (U32Div(now, 500)[2] % 2) = 0

\* BlinkWrites with the blink phase counted from cycleStart
BlinkWrites_FromCycleStart(now) ==
  LET v == IF BlinkState(U32Sub(now, cycleStart)) THEN HIGH ELSE LOW
  IN  << <<LED_RED, v>>, <<LED_YELLOW, v>>, <<LED_GREEN, v>>, <<LED_BLINK, v>> >>

\* lines 131-134: blinking mode
BlinkWrites(now) ==
  LET v == IF BlinkState(now) THEN HIGH ELSE LOW
  IN  << <<LED_RED, v>>, <<LED_YELLOW, v>>, <<LED_GREEN, v>>, <<LED_BLINK, v>> >>

\* Elapsed with the difference held in a signed long: a negative difference
\* has a negative remainder
Elapsed_SignedLong(now, start) ==
  IF U32Lt(now, start)
    THEN 0 - U32Mod(U32Sub(start, now), cycleDuration)
    ELSE U32Mod(U32Sub(now, start), cycleDuration)

\* line 140: unsigned long elapsed = (now - cycleStart) % cycleDuration
Elapsed(now, start) == U32Mod(U32Sub(now, start), cycleDuration)

\* line 162: int tick = (elapsed - 4500) / 100
FlashTick(e) == (e - 4500) \div 100

\* NormalOn with the first window closed at its upper bound (<= for <)
NormalOn_UpperInclusive(e) ==
  IF e <= 2000 THEN << <<LED_RED, HIGH>> >>
  ELSE IF e < 2500 THEN << <<LED_YELLOW, HIGH>> >>
  ELSE IF e < 4500 THEN << <<LED_GREEN, HIGH>> >>
  ELSE IF e < 5500
       THEN IF FlashTick(e) = 0 \/ FlashTick(e) = 3 \/ FlashTick(e) = 6
            THEN << <<LED_BLINK, HIGH>> >>
            ELSE << >>
  ELSE << <<LED_YELLOW, HIGH>> >>

\* lines 148-170: the one pin the normal cycle turns on, if any
NormalOn(e) ==
  IF e < 2000 THEN << <<LED_RED, HIGH>> >>
  ELSE IF e < 2500 THEN << <<LED_YELLOW, HIGH>> >>
  ELSE IF e < 4500 THEN << <<LED_GREEN, HIGH>> >>
  ELSE IF e < 5500
       THEN IF FlashTick(e) = 0 \/ FlashTick(e) = 3 \/ FlashTick(e) = 6
            THEN << <<LED_BLINK, HIGH>> >>
            ELSE << >>
  ELSE << <<LED_YELLOW, HIGH>> >>

\* NormalWrites without lines 143-146: the phase's pin is turned on and the
\* others are left as they were
NormalWrites_NoClear(now, start) == NormalOn(Elapsed(now, start))

\* lines 139-170: normal operation, all four LOW first, then the phase's pin
NormalWrites(now, start) == OffWrites \o NormalOn(Elapsed(now, start))

\* the pins after the calls ws are made on pin levels p
RECURSIVE ApplyWrites(_, _)
ApplyWrites(p, ws) ==
  IF ws = << >> THEN p
  ELSE ApplyWrites([p EXCEPT ![Head(ws)[1]] = Head(ws)[2]], Tail(ws))

AllLow == [q \in LedPins |-> LOW]
AllHigh == [q \in LedPins |-> HIGH]
Only(led) == [q \in LedPins |-> IF q = led THEN HIGH ELSE LOW]

(***************************************************************************)
(* The periodic driver: runner.execute() and updateTrafficLights().  An    *)
(* interrupt can be taken between any two steps of the main flow, so the   *)
(* tick is modelled read by read and write by write.                       *)
(***************************************************************************)
NoToggle == << >>

\* trafficTask(100, TASK_FOREVER, ..., true) is not yet due: execute() returns
ExecuteNotDue ==
  /\ pc = "execute"
  /\ U32Lt(U32Sub(millis, iPreviousMillis), ToU32(TaskInterval))
  /\ pc' = "poll"
  /\ UNCHANGED <<flagVars, stampVars, lastBlinkingButtonState, cycleStart, pins,
                 buttonBlinking, clock, iPreviousMillis, wq, branch, age,
                 toggledInTick, pending, edgeObs, seq, wrapped,
                 observer, elapsed, acceptObs, seen, tickNow, iteration,
                 usec>>

\* the task is due: execute() moves the due time on and calls the callback
ExecuteDue ==
  /\ pc = "execute"
  /\ ~U32Lt(U32Sub(millis, iPreviousMillis), ToU32(TaskInterval))
  /\ iPreviousMillis' = U32Add(iPreviousMillis, ToU32(TaskInterval))
  /\ pc' = "L111"
  /\ toggledInTick' = FALSE
  /\ pending' = NoToggle
  /\ seen' = IF observer = "race"
               THEN {<<systemOffMode, emergencyMode, blinkingMode>>}
               ELSE seen
  /\ UNCHANGED <<flagVars, stampVars, lastBlinkingButtonState, cycleStart, pins,
                 buttonBlinking, clock, wq, branch, age, edgeObs, seq, wrapped,
                 observer, elapsed, acceptObs, tickNow,
                 iteration, usec>>

tickFrame == <<flagVars, stampVars, lastBlinkingButtonState, cycleStart,
               buttonBlinking, clock, iPreviousMillis, age, toggledInTick,
               pending, edgeObs, seq, wrapped, observer, acceptObs, seen,
               iteration, usec>>

\* TickSystemOff with the emergency test moved in front of the shutdown test
TickSystemOff_EmergencyFirst ==
  /\ pc = "L111"
  /\ IF emergencyMode
       THEN /\ wq' = EmergencyWrites
            /\ branch' = "emergency"
            /\ pc' = "write"
       ELSE IF systemOffMode
         THEN /\ wq' = OffWrites
              /\ branch' = "off"
              /\ pc' = "write"
         ELSE /\ pc' = "L120"
              /\ UNCHANGED <<wq, branch>>
  /\ UNCHANGED <<pins, elapsed, tickNow, tickFrame>>

\* line 111: if (systemOffMode)
TickSystemOff ==
  /\ pc = "L111"
  /\ IF systemOffMode
       THEN /\ wq' = OffWrites
            /\ branch' = "off"
            /\ pc' = "write"
       ELSE /\ pc' = "L120"
            /\ UNCHANGED <<wq, branch>>
  /\ UNCHANGED <<pins, elapsed, tickNow, tickFrame>>

\* line 120: if (emergencyMode)
TickEmergency ==
  /\ pc = "L120"
  /\ IF emergencyMode
       THEN /\ wq' = EmergencyWrites
            /\ branch' = "emergency"
            /\ pc' = "write"
       ELSE /\ pc' = "L129"
            /\ UNCHANGED <<wq, branch>>
  /\ UNCHANGED <<pins, elapsed, tickNow, tickFrame>>

\* TickBlinking with the test of line 129 negated
TickBlinking_Negated ==
  /\ pc = "L129"
  /\ IF ~blinkingMode
       THEN /\ wq' = BlinkWrites(millis)
            /\ branch' = "blink"
            /\ UNCHANGED elapsed
       ELSE /\ wq' = NormalWrites(millis, cycleStart)
            /\ branch' = "normal"
            /\ elapsed' = Elapsed(millis, cycleStart)
  /\ tickNow' = millis
  /\ pc' = "write"
  /\ UNCHANGED <<pins, tickFrame>>

\* line 129: if (blinkingMode), else line 139 onwards
TickBlinking ==
  /\ pc = "L129"
  /\ IF blinkingMode
       THEN /\ wq' = BlinkWrites(millis)
            /\ branch' = "blink"
            /\ UNCHANGED elapsed
       ELSE /\ wq' = NormalWrites(millis, cycleStart)
            /\ branch' = "normal"
            /\ elapsed' = Elapsed(millis, cycleStart)
  /\ tickNow' = millis
  /\ pc' = "write"
  /\ UNCHANGED <<pins, tickFrame>>

\* one digitalWrite(pin, level)
DigitalWrite ==
  /\ pc = "write"
  /\ wq # << >>
  /\ pins' = [pins EXCEPT ![Head(wq)[1]] = Head(wq)[2]]
  /\ wq' = Tail(wq)
  /\ UNCHANGED <<pc, branch, elapsed, tickNow, tickFrame>>

\* the tick has made all its writes
TickDone == pc = "write" /\ wq = << >>

\* updateTrafficLights() returns into loop()
TickReturn ==
  /\ TickDone
  /\ pc' = "poll"
  /\ UNCHANGED <<pins, wq, branch, elapsed, tickNow, tickFrame>>

updateTrafficLights ==
  TickSystemOff \/ TickEmergency \/ TickBlinking \/ DigitalWrite

(***************************************************************************)
(* The interrupt handlers.  They are attached by setup() and run to        *)
(* completion (interrupts do not nest), between any two steps of the main  *)
(* flow.  micros() does not run backwards: a handler reads it no earlier   *)
(* in the current millisecond than the last handler that left a trace did  *)
(* (usec).  An edge that is rejected and not observed changes nothing, and *)
(* an edge rejected at one microsecond is rejected at every earlier one of *)
(* the same millisecond, so the time of its read is not kept.              *)
(***************************************************************************)
\* line 93 has attached emergencyISR to the falling edge of pin 2
EmergencyAttached == pc \notin {"setup", "L93"}
\* line 94 has attached resetISR to the falling edge of pin 3
ResetAttached == pc \notin {"setup", "L93", "L94"}

\* lines 46, 55: current - last >= debounceDelayMicro, on unsigned long
EdgeAccept(current, last) ==
  ~U32Lt(U32Sub(current, last), ToU32(debounceDelayMicro))

\* a tick is between its first read and its return
InTick == pc \in {"L111", "L120", "L129", "write"}

\* the mode states of the running tick after a handler has left the flags
\* off, em, bl
NoteSeen(off, em, bl) ==
  IF observer = "race" /\ InTick THEN seen \cup {<<off, em, bl>>} ELSE seen

\* what an accepted toggle leaves for the next tick to pick up
NotePending ==
  IF observer = "lag" /\ pending = NoToggle THEN <<clock>> ELSE pending
NoteInTick == toggledInTick \/ (observer = "lag" /\ InTick)

\* The clock advance of one step, in ms: the smallest time constant of the
\* program, of which all the others (100, 200, 500, 2000, ...) are multiples.
ClockStep == blinkingDebounceDelay

\* one clock step more than the debounce window, in milliseconds
QuietCap == (debounceDelayMicro \div 1000) + ClockStep

\* acceptObs.em, acceptObs.rs: the milliseconds of the clock since the
\* trigger's last accepted toggle, counted on no wrapping counter and up to
\* QuietCap (which stands for "longer than the window"), and acceptObs.emU,
\* acceptObs.rsU the microseconds into its millisecond at which that toggle
\* was accepted; the other fields describe the last edge handled: whether the
\* window of 200000 us had passed (due), whether the flag was toggled, whether
\* the timestamp is now the time of the edge (stored) or what it was (kept)
NoteEdge(trigger, flag, flagAfter, stamp, stampAfter, current, u) ==
  IF observer # "accept" THEN acceptObs
  ELSE LET at == IF trigger = "em" THEN acceptObs.emU ELSE acceptObs.rsU
           quiet == (acceptObs[trigger] * 1000) + u - at
           noted == [acceptObs EXCEPT
                       ![trigger] = IF flagAfter # flag THEN 0 ELSE @,
                       !.n = 1,
                       !.due = quiet >= debounceDelayMicro,
                       !.toggled = flagAfter # flag,
                       !.stored = stampAfter = current,
                       !.kept = stampAfter = stamp]
       IN  IF flagAfter = flag THEN noted
           ELSE IF trigger = "em" THEN [noted EXCEPT !.emU = u]
           ELSE [noted EXCEPT !.rsU = u]

\* the record of the first two emergency edges after one more edge, handled
\* at current on the microsecond counter (which has not wrapped so soon after
\* power-on): apart says that the two are 200000 us or more apart
ObserveEdge(accepted, current) ==
  LET inc == IF accepted THEN 1 ELSE 0
  IN  IF observer # "edges" THEN edgeObs
      ELSE IF edgeObs.n = 0
        THEN [n |-> 1, t1 |-> current, toggles |-> inc, apart |-> FALSE]
      ELSE IF edgeObs.n = 1
        THEN [n |-> 2, t1 |-> ToU32(0), toggles |-> edgeObs.toggles + inc,
              apart |-> ~U32Lt(U32Sub(current, edgeObs.t1),
                               ToU32(debounceDelayMicro))]
      ELSE edgeObs

\* an edge on the emergency input is recorded by one of the observations
EdgeObserved ==
  (observer = "edges" /\ edgeObs.n < 2) \/ observer = "accept"

\* emergencyISR storing the time since the last accepted edge instead of the
\* time of this one (line 48)
emergencyISR_StoresElapsed(u) ==
  /\ EmergencyAttached
  /\ u >= usec
  /\ LET current == micros(u)
         accepted == EdgeAccept(current, lastEmergencyInterruptTime)
         kept == accepted \/ EdgeObserved
     IN  /\ usec' = IF kept THEN u ELSE usec
         /\ IF accepted
              THEN /\ emergencyMode' = ~emergencyMode
                   /\ lastEmergencyInterruptTime' =
                        U32Sub(current, lastEmergencyInterruptTime)
                   /\ toggledInTick' = NoteInTick
                   /\ pending' = NotePending
                   /\ wrapped' = [wrapped EXCEPT !.em = FALSE]
              ELSE UNCHANGED <<emergencyMode, lastEmergencyInterruptTime,
                               toggledInTick, pending, wrapped>>
         /\ edgeObs' = ObserveEdge(accepted, current)
         /\ acceptObs' = NoteEdge("em", emergencyMode, emergencyMode',
                                 lastEmergencyInterruptTime,
                                 lastEmergencyInterruptTime', current, u)
         /\ seen' = NoteSeen(systemOffMode, emergencyMode', blinkingMode)
  /\ UNCHANGED <<systemOffMode, blinkingMode, lastResetInterruptTime,
                 lastBlinkingDebounceTime, lastBlinkingButtonState, cycleStart,
                 pins, buttonBlinking, clock, iPreviousMillis, pc, wq, branch,
                 age, seq, observer, elapsed, tickNow, iteration>>

\* emergencyISR also restarting the normal cycle when it accepts an edge
emergencyISR_RestartsCycle(u) ==
  /\ EmergencyAttached
  /\ u >= usec
  /\ LET current == micros(u)
         accepted == EdgeAccept(current, lastEmergencyInterruptTime)
         kept == accepted \/ EdgeObserved
     IN  /\ usec' = IF kept THEN u ELSE usec
         /\ IF accepted
              THEN /\ emergencyMode' = ~emergencyMode
                   /\ lastEmergencyInterruptTime' = current
                   /\ cycleStart' = millis
                   /\ toggledInTick' = NoteInTick
                   /\ pending' = NotePending
                   /\ wrapped' = [wrapped EXCEPT !.em = FALSE]
              ELSE UNCHANGED <<emergencyMode, lastEmergencyInterruptTime,
                               toggledInTick, pending, wrapped, cycleStart>>
         /\ edgeObs' = ObserveEdge(accepted, current)
         /\ acceptObs' = NoteEdge("em", emergencyMode, emergencyMode',
                                 lastEmergencyInterruptTime,
                                 lastEmergencyInterruptTime', current, u)
         /\ seen' = NoteSeen(systemOffMode, emergencyMode', blinkingMode)
  /\ UNCHANGED <<systemOffMode, blinkingMode, lastResetInterruptTime,
                 lastBlinkingDebounceTime, lastBlinkingButtonState,
                 pins, buttonBlinking, clock, iPreviousMillis, pc, wq, branch,
                 age, seq, observer, elapsed, tickNow, iteration>>

\* lines 44-50
emergencyISR(u) ==
  /\ EmergencyAttached
  /\ u >= usec
  /\ LET current == micros(u)
         accepted == EdgeAccept(current, lastEmergencyInterruptTime)
         kept == accepted \/ EdgeObserved
     IN  /\ usec' = IF kept THEN u ELSE usec
         /\ IF accepted
              THEN /\ emergencyMode' = ~emergencyMode
                   /\ lastEmergencyInterruptTime' = current
                   /\ toggledInTick' = NoteInTick
                   /\ pending' = NotePending
                   /\ wrapped' = [wrapped EXCEPT !.em = FALSE]
              ELSE UNCHANGED <<emergencyMode, lastEmergencyInterruptTime,
                               toggledInTick, pending, wrapped>>
         /\ edgeObs' = ObserveEdge(accepted, current)
         /\ acceptObs' = NoteEdge("em", emergencyMode, emergencyMode',
                                 lastEmergencyInterruptTime,
                                 lastEmergencyInterruptTime', current, u)
         /\ seen' = NoteSeen(systemOffMode, emergencyMode', blinkingMode)
  /\ UNCHANGED <<systemOffMode, blinkingMode, lastResetInterruptTime,
                 lastBlinkingDebounceTime, lastBlinkingButtonState, cycleStart,
                 pins, buttonBlinking, clock, iPreviousMillis, pc, wq, branch,
                 age, seq, observer, elapsed, tickNow, iteration>>

\* resetISR also leaving emergency mode when it accepts an edge
resetISR_ClearsEmergency(u) ==
  /\ ResetAttached
  /\ u >= usec
  /\ LET current == micros(u)
         accepted == EdgeAccept(current, lastResetInterruptTime)
         kept == accepted \/ (observer = "accept")
     IN  /\ usec' = IF kept THEN u ELSE usec
         /\ IF accepted
              THEN /\ systemOffMode' = ~systemOffMode
                   /\ emergencyMode' = FALSE
                   /\ lastResetInterruptTime' = current
                   /\ toggledInTick' = NoteInTick
                   /\ pending' = NotePending
                   /\ wrapped' = [wrapped EXCEPT !.rs = FALSE]
              ELSE UNCHANGED <<systemOffMode, lastResetInterruptTime,
                               toggledInTick, pending, wrapped, emergencyMode>>
         /\ acceptObs' = NoteEdge("rs", systemOffMode, systemOffMode',
                                 lastResetInterruptTime,
                                 lastResetInterruptTime', current, u)
         /\ seen' = NoteSeen(systemOffMode', emergencyMode', blinkingMode)
  /\ UNCHANGED <<blinkingMode, lastEmergencyInterruptTime,
                 lastBlinkingDebounceTime, lastBlinkingButtonState, cycleStart,
                 pins, buttonBlinking, clock, iPreviousMillis, pc, wq, branch,
                 age, edgeObs, seq, observer, elapsed, tickNow, iteration>>

\* lines 53-59
resetISR(u) ==
  /\ ResetAttached
  /\ u >= usec
  /\ LET current == micros(u)
         accepted == EdgeAccept(current, lastResetInterruptTime)
         kept == accepted \/ (observer = "accept")
     IN  /\ usec' = IF kept THEN u ELSE usec
         /\ IF accepted
              THEN /\ systemOffMode' = ~systemOffMode
                   /\ lastResetInterruptTime' = current
                   /\ toggledInTick' = NoteInTick
                   /\ pending' = NotePending
                   /\ wrapped' = [wrapped EXCEPT !.rs = FALSE]
              ELSE UNCHANGED <<systemOffMode, lastResetInterruptTime,
                               toggledInTick, pending, wrapped>>
         /\ acceptObs' = NoteEdge("rs", systemOffMode, systemOffMode',
                                 lastResetInterruptTime,
                                 lastResetInterruptTime', current, u)
         /\ seen' = NoteSeen(systemOffMode', emergencyMode, blinkingMode)
  /\ UNCHANGED <<emergencyMode, blinkingMode, lastEmergencyInterruptTime,
                 lastBlinkingDebounceTime, lastBlinkingButtonState, cycleStart,
                 pins, buttonBlinking, clock, iPreviousMillis, pc, wq, branch,
                 age, edgeObs, seq, observer, elapsed, tickNow, iteration>>

(***************************************************************************)
(* The polled button                                                       *)
(***************************************************************************)
\* PollAccept with >= for > in the debounce comparison
PollAccept_AtWindow(lastState, currentState, currentTime, lastTime) ==
  /\ lastState = HIGH
  /\ currentState = LOW
  /\ U32Le(ToU32(blinkingDebounceDelay), U32Sub(currentTime, lastTime))

\* lines 65-66: the condition of the if
PollAccept(lastState, currentState, currentTime, lastTime) ==
  /\ lastState = HIGH
  /\ currentState = LOW
  /\ U32Lt(ToU32(blinkingDebounceDelay), U32Sub(currentTime, lastTime))

\* the observed bounce sequence is running and its 50 ms are not over
InBounce ==
  /\ observer = "bounce"
  /\ seq.phase \in 2..4
  /\ U32Le(U32Sub(clock, seq.start), ToU32(50))

\* pollBlinkingButton with line 70 moved into the if: the level is remembered
\* only when a toggle is accepted
pollBlinkingButton_LevelOnToggle ==
  /\ pc = "poll"
  /\ LET currentState == buttonBlinking
         currentTime == millis
     IN  /\ IF PollAccept(lastBlinkingButtonState, currentState, currentTime,
                          lastBlinkingDebounceTime)
              THEN /\ blinkingMode' = ~blinkingMode
                   /\ lastBlinkingDebounceTime' = currentTime
                   /\ lastBlinkingButtonState' = currentState
                   /\ pending' = NotePending
                   /\ wrapped' = [wrapped EXCEPT !.bl = FALSE]
                   /\ seq' = IF InBounce
                               THEN [seq EXCEPT !.toggles = @ + 1]
                               ELSE seq
              ELSE UNCHANGED <<blinkingMode, lastBlinkingDebounceTime, pending,
                               wrapped, seq, lastBlinkingButtonState>>
  /\ pc' = "loopEnd"
  /\ UNCHANGED <<emergencyMode, systemOffMode, lastEmergencyInterruptTime,
                 lastResetInterruptTime, cycleStart, pins, buttonBlinking,
                 clock, iPreviousMillis, wq, branch, age, toggledInTick,
                 edgeObs, observer, elapsed, acceptObs, seen, tickNow,
                 iteration, usec>>

\* lines 62-71
pollBlinkingButton ==
  /\ pc = "poll"
  /\ LET currentState == buttonBlinking
         currentTime == millis
     IN  /\ IF PollAccept(lastBlinkingButtonState, currentState, currentTime,
                          lastBlinkingDebounceTime)
              THEN /\ blinkingMode' = ~blinkingMode
                   /\ lastBlinkingDebounceTime' = currentTime
                   /\ pending' = NotePending
                   /\ wrapped' = [wrapped EXCEPT !.bl = FALSE]
                   /\ seq' = IF InBounce
                               THEN [seq EXCEPT !.toggles = @ + 1]
                               ELSE seq
              ELSE UNCHANGED <<blinkingMode, lastBlinkingDebounceTime, pending,
                               wrapped, seq>>
         /\ lastBlinkingButtonState' = currentState
  /\ pc' = "loopEnd"
  /\ UNCHANGED <<emergencyMode, systemOffMode, lastEmergencyInterruptTime,
                 lastResetInterruptTime, cycleStart, pins, buttonBlinking,
                 clock, iPreviousMillis, wq, branch, age, toggledInTick,
                 edgeObs, observer, elapsed, acceptObs, seen, tickNow,
                 iteration, usec>>

(***************************************************************************)
(* setup() and loop()                                                      *)
(***************************************************************************)
\* setup() is between its first statement and its return
InSetup == pc \in {"setup", "L93", "L94", "L98"}

\* lines 76-91: the LED pins are made outputs and driven LOW, the button pins
\* inputs; no handler is attached yet
SetupPins ==
  /\ pc = "setup"
  /\ pins' = ApplyWrites(pins, OffWrites)
  /\ pc' = "L93"
  /\ UNCHANGED <<flagVars, stampVars, lastBlinkingButtonState, cycleStart,
                 buttonBlinking, clock, iPreviousMillis, wq, branch, age,
                 toggledInTick, pending, edgeObs, seq, wrapped, observer,
                 elapsed, acceptObs, seen, tickNow, iteration, usec>>

\* line 93: attachInterrupt(..., emergencyISR, FALLING); from here on
\* emergencyISR can run, the rest of setup() included
AttachEmergency ==
  /\ pc = "L93"
  /\ pc' = "L94"
  /\ UNCHANGED <<flagVars, stampVars, lastBlinkingButtonState, cycleStart, pins,
                 buttonBlinking, clock, iPreviousMillis, wq, branch, age,
                 toggledInTick, pending, edgeObs, seq, wrapped, observer,
                 elapsed, acceptObs, seen, tickNow, iteration, usec>>

\* line 94: attachInterrupt(..., resetISR, FALLING)
AttachReset ==
  /\ pc = "L94"
  /\ pc' = "L98"
  /\ UNCHANGED <<flagVars, stampVars, lastBlinkingButtonState, cycleStart, pins,
                 buttonBlinking, clock, iPreviousMillis, wq, branch, age,
                 toggledInTick, pending, edgeObs, seq, wrapped, observer,
                 elapsed, acceptObs, seen, tickNow, iteration, usec>>

\* CaptureCycleStart without the assignment of line 98: cycleStart keeps its
\* initial 0
CaptureCycleStart_Skipped ==
  /\ pc = "L98"
  /\ pc' = "execute"
  /\ iteration' = "whole"
  /\ UNCHANGED <<flagVars, stampVars, lastBlinkingButtonState, cycleStart, pins,
                 buttonBlinking, clock, iPreviousMillis, wq, branch, age,
                 toggledInTick, pending, edgeObs, seq, wrapped, observer,
                 elapsed, acceptObs, seen, tickNow, usec>>

\* line 98: cycleStart = millis(), and setup() returns; loop() is called next
CaptureCycleStart ==
  /\ pc = "L98"
  /\ cycleStart' = millis
  /\ pc' = "execute"
  /\ iteration' = "whole"
  /\ UNCHANGED <<flagVars, stampVars, lastBlinkingButtonState, pins,
                 buttonBlinking, clock, iPreviousMillis, wq, branch, age,
                 toggledInTick, pending, edgeObs, seq, wrapped, observer,
                 elapsed, acceptObs, seen, tickNow, usec>>

\* lines 74-99, statement by statement: a handler that is attached can run
\* before setup() has returned
setup == SetupPins \/ AttachEmergency \/ AttachReset \/ CaptureCycleStart

\* lines 102-105: loop() returns and is called again at once
loop ==
  /\ pc = "loopEnd"
  /\ pc' = "execute"
  /\ iteration' = IF iteration = "cut" THEN "clean" ELSE "whole"
  /\ UNCHANGED <<flagVars, stampVars, lastBlinkingButtonState, cycleStart, pins,
                 buttonBlinking, clock, iPreviousMillis, wq, branch, age,
                 toggledInTick, pending, edgeObs, seq, wrapped,
                 observer, elapsed, acceptObs, seen, tickNow, usec>>

(***************************************************************************)
(* The environment: time and the polled button's level                     *)
(***************************************************************************)
\* number of clock advances explored from an initial state
MaxAge == 5
\* number of clock advances explored in the program resumed later
MaxLateAge == 4

\* The counter is advanced by a timer interrupt, so it can tick between any
\* two steps of the main flow: the reads of millis() in runner.execute(), in
\* updateTrafficLights() and at line 64 of one pass of loop() need not see the
\* same instant.  loop() makes no blocking call and a pass is far shorter than
\* a millisecond, so the counter ticks at most once during a pass and every
\* instant sees a whole pass: iteration is "clean" while the running pass has
\* seen no tick of the counter, "cut" when it has, and "whole" once a pass has
\* run from runner.execute() to the end at this instant.  The counter can
\* also tick between line 98 of setup() and the first pass of loop(), and
\* once before setup() returns (setup() makes no blocking call either, and
\* the counter starts just before it is called).  A tick of the counter
\* starts a new millisecond of the microsecond counter.
Advance(d) ==
  /\ \/ /\ ~InSetup /\ pc # "execute"
        /\ iteration = "whole"
        /\ age < MaxAge
        /\ iteration' = "cut"
     \/ /\ pc = "execute"
        /\ iteration = "whole"
        /\ age < MaxAge
        /\ iteration' = "clean"
     \/ /\ InSetup
        /\ iteration = "clean"
        /\ iteration' = "cut"
  /\ clock' = U32Add(clock, ToU32(d))
  /\ usec' = 0
  /\ age' = age + 1
  /\ wrapped' =
       LET us == U32Lt(U32Mul1000(clock'), U32Mul1000(clock))
           ms == U32Lt(clock', clock)
       IN  [em |-> wrapped.em \/ us, rs |-> wrapped.rs \/ us,
            bl |-> wrapped.bl \/ ms]
  /\ acceptObs' =
       IF observer # "accept" THEN acceptObs
       ELSE [acceptObs EXCEPT
               !.em = IF @ + d > QuietCap THEN QuietCap ELSE @ + d,
               !.rs = IF @ + d > QuietCap THEN QuietCap ELSE @ + d]
  /\ UNCHANGED <<flagVars, stampVars, lastBlinkingButtonState, cycleStart, pins,
                 buttonBlinking, iPreviousMillis, wq, branch, toggledInTick,
                 pending, edgeObs, seq, observer, elapsed, seen, tickNow, pc>>

\* The level of the polled pin changes (a press, a release or a bounce), any
\* number of times; only line 63 reads the level, so the changes since the
\* previous poll are taken just before the next one.  A falling level may open
\* the observed bounce sequence.
ButtonChange(observe) ==
  /\ pc = "poll"
  /\ observe => observer = "bounce"
  /\ buttonBlinking' = IF buttonBlinking = HIGH THEN LOW ELSE HIGH
  /\ seq' =
       IF seq.phase = 0
         THEN IF observe /\ buttonBlinking = HIGH
                THEN [phase |-> 2, start |-> clock, toggles |-> 0]
                ELSE seq
       ELSE IF seq.phase \in 2..4
         THEN [seq EXCEPT !.phase = @ + 1]
       ELSE seq
  /\ UNCHANGED <<flagVars, stampVars, lastBlinkingButtonState, cycleStart, pins,
                 clock, iPreviousMillis, pc, wq, branch, age, toggledInTick,
                 pending, edgeObs, wrapped, observer, elapsed, acceptObs, seen,
                 tickNow, iteration, usec>>

(***************************************************************************)
(* Initial states and specifications                                       *)
(***************************************************************************)
NoEdges == [n |-> 0, t1 |-> ToU32(0), toggles |-> 0, apart |-> FALSE]
NoBounce == [phase |-> 0, start |-> ToU32(0), toggles |-> 0]
NoWrap == [em |-> FALSE, rs |-> FALSE, bl |-> FALSE]
\* no edge handled yet and no toggle accepted within the last window
NoAccept == [em |-> QuietCap, rs |-> QuietCap, emU |-> 0, rsU |-> 0,
             n |-> 0, due |-> FALSE,
             toggled |-> FALSE, stored |-> FALSE, kept |-> FALSE]

\* lines 18-35: the globals as the static initialisers leave them, at power-on
\* (clock 0).  trafficTask is constructed enabled, so its first run is due at
\* once: the last due time is one interval before the clock.
Init ==
  /\ emergencyMode = FALSE
  /\ systemOffMode = FALSE
  /\ blinkingMode = FALSE
  /\ lastEmergencyInterruptTime = ToU32(0)
  /\ lastResetInterruptTime = ToU32(0)
  /\ lastBlinkingDebounceTime = ToU32(0)
  /\ lastBlinkingButtonState = HIGH
  /\ cycleStart = ToU32(0)
  /\ pins = AllLow
  /\ buttonBlinking = HIGH
  /\ clock = ToU32(0)
  /\ iPreviousMillis = U32Sub(ToU32(0), ToU32(TaskInterval))
  /\ pc = "setup"
  /\ wq = << >>
  /\ branch = "none"
  /\ age = 0
  /\ toggledInTick = FALSE
  /\ pending = NoToggle
  /\ edgeObs = NoEdges
  /\ seq = NoBounce
  /\ wrapped = NoWrap
  /\ observer \in Observers
  /\ elapsed = 0
  /\ acceptObs = NoAccept
  /\ seen = {}
  /\ tickNow = clock
  /\ iteration = "clean"
  /\ usec = 0

Next ==
  \/ setup
  \/ ExecuteNotDue
  \/ ExecuteDue
  \/ updateTrafficLights
  \/ TickReturn
  \/ pollBlinkingButton
  \/ loop
  \/ \E u \in SubMicros : emergencyISR(u)
  \/ \E u \in SubMicros : resetISR(u)
  \/ Advance(ClockStep)
  \/ \E observe \in BOOLEAN : ButtonChange(observe)

\* the program from power-on
Spec == Init /\ [][Next]_vars

\* Instants long after power-on at which the model resumes the program:
\* before the yellow and before the flash windows of a cycle,
LateStarts == {ToU32(1900), ToU32(4400)}
\* and 250 ms or more before the microsecond counter wraps (2^32 us =
\* 4294967.296 ms), so that two toggles of a trigger are accepted before the
\* wrap, less than 200 ms before it, and before the millisecond counter wraps.
WrapStarts ==
  {ToU32(4294700), ToU32(4294800), U32Sub(ToU32(0), ToU32(196))}

\* The program after it has run from power-on to one of the instants starts
\* with no button touched: setup() ran at clock 0, the flags and timestamps
\* are as initialised, the pins are as the tick 100 ms earlier left them, and
\* the next tick is due now.
InitResumed(starts, observers) ==
  /\ emergencyMode = FALSE
  /\ systemOffMode = FALSE
  /\ blinkingMode = FALSE
  /\ lastEmergencyInterruptTime = ToU32(0)
  /\ lastResetInterruptTime = ToU32(0)
  /\ lastBlinkingDebounceTime = ToU32(0)
  /\ lastBlinkingButtonState = HIGH
  /\ cycleStart = ToU32(0)
  /\ buttonBlinking = HIGH
  /\ clock \in starts
  /\ iPreviousMillis = U32Sub(clock, ToU32(TaskInterval))
  /\ pins = ApplyWrites(AllLow, NormalWrites(iPreviousMillis, cycleStart))
  /\ pc = "execute"
  /\ wq = << >>
  /\ branch = "normal"
  /\ age = MaxAge - MaxLateAge
  /\ toggledInTick = FALSE
  /\ pending = NoToggle
  /\ edgeObs = NoEdges
  /\ seq = NoBounce
  /\ wrapped = [em |-> U32Lt(ToU32(4294967), clock),
                rs |-> U32Lt(ToU32(4294967), clock), bl |-> FALSE]
  /\ observer \in observers
  /\ elapsed = Elapsed(iPreviousMillis, cycleStart)
  /\ acceptObs = NoAccept
  /\ seen = {}
  /\ tickNow = iPreviousMillis
  /\ iteration = "clean"
  /\ usec = 0

InitLate == InitResumed(LateStarts, LateObservers)
InitWrap == InitResumed(WrapStarts, WrapObservers)

NextLate ==
  \/ ExecuteNotDue
  \/ ExecuteDue
  \/ updateTrafficLights
  \/ TickReturn
  \/ pollBlinkingButton
  \/ loop
  \/ \E u \in SubMicros : emergencyISR(u)
  \/ \E u \in SubMicros : resetISR(u)
  \/ Advance(ClockStep)
  \/ \E observe \in BOOLEAN : ButtonChange(observe)

\* the program resumed in mid-cycle
SpecLate == InitLate /\ [][NextLate]_vars
\* the program resumed before a counter wraps
SpecWrap == InitWrap /\ [][NextLate]_vars

\* Inputs of one call of updateTrafficLights(): every millisecond of
\* TickSpan ms from either reference time, and the instants around the wrap of
\* the millisecond counter.
TickSpan == 6010
TickStarts == {ToU32(0), ToU32(3)}
TickNows ==
  {ToU32(n) : n \in 0..(TickSpan - 1)}
    \cup {U32Sub(ToU32(3), ToU32(k)) : k \in 0..6}

\* updateTrafficLights() is entered with any flags, at any of these instants,
\* over pins all low or all high.
InitTick ==
  /\ emergencyMode \in BOOLEAN
  /\ systemOffMode \in BOOLEAN
  /\ blinkingMode \in BOOLEAN
  /\ lastEmergencyInterruptTime = ToU32(0)
  /\ lastResetInterruptTime = ToU32(0)
  /\ lastBlinkingDebounceTime = ToU32(0)
  /\ lastBlinkingButtonState = HIGH
  /\ cycleStart \in TickStarts
  /\ buttonBlinking = HIGH
  /\ clock \in TickNows
  /\ iPreviousMillis = clock
  /\ pins \in {AllLow, AllHigh}
  /\ pc = "L111"
  /\ wq = << >>
  /\ branch = "none"
  /\ age = 0
  /\ toggledInTick = FALSE
  /\ pending = NoToggle
  /\ edgeObs = NoEdges
  /\ seq = NoBounce
  /\ wrapped = NoWrap
  /\ observer = "lag"
  /\ elapsed = 0
  /\ acceptObs = NoAccept
  /\ seen = {}
  /\ tickNow = clock
  /\ iteration = "clean"
  /\ usec = 0

SpecTick == InitTick /\ [][updateTrafficLights]_vars

\* number of successive milliseconds at which the normal branch is evaluated
MaxPhaseAge == 8
\* Instants from which the phase is followed millisecond by millisecond: the
\* start of a cycle, the ends of the red window and of the cycle, and the
\* last milliseconds before the millisecond counter wraps.
PhaseStarts(start) ==
  {U32Add(start, ToU32(k)) : k \in {0, 1996, 5996}}
    \cup {U32Sub(ToU32(0), ToU32(4))}

\* updateTrafficLights() is entered in normal mode at one of these instants
InitPhase ==
  /\ emergencyMode = FALSE
  /\ systemOffMode = FALSE
  /\ blinkingMode = FALSE
  /\ lastEmergencyInterruptTime = ToU32(0)
  /\ lastResetInterruptTime = ToU32(0)
  /\ lastBlinkingDebounceTime = ToU32(0)
  /\ lastBlinkingButtonState = HIGH
  /\ cycleStart \in TickStarts
  /\ buttonBlinking = HIGH
  /\ clock \in PhaseStarts(cycleStart)
  /\ iPreviousMillis = clock
  /\ pins = AllLow
  /\ pc = "L111"
  /\ wq = << >>
  /\ branch = "none"
  /\ age = 0
  /\ toggledInTick = FALSE
  /\ pending = NoToggle
  /\ edgeObs = NoEdges
  /\ seq = NoBounce
  /\ wrapped = NoWrap
  /\ observer = "lag"
  /\ elapsed = 0
  /\ acceptObs = NoAccept
  /\ seen = {}
  /\ tickNow = clock
  /\ iteration = "clean"
  /\ usec = 0

\* line 139: millis() is one millisecond further at the next evaluation
NextMillisecond ==
  /\ TickDone
  /\ age < MaxPhaseAge
  /\ clock' = U32Add(clock, ToU32(1))
  /\ age' = age + 1
  /\ pc' = "L111"
  /\ UNCHANGED <<flagVars, stampVars, lastBlinkingButtonState, cycleStart, pins,
                 buttonBlinking, iPreviousMillis, wq, branch, toggledInTick,
                 pending, edgeObs, seq, wrapped,
                 observer, elapsed, acceptObs, seen, tickNow, iteration,
                 usec>>

\* the normal branch evaluated at successive milliseconds
SpecPhase == InitPhase /\ [][updateTrafficLights \/ NextMillisecond]_vars

(***************************************************************************)
(* The Light Output Resolver as the specification states it (section 4.3): *)
(* the vector for a mode state, the time and the cycle reference.          *)
(***************************************************************************)
\* the table of the normal cycle, by the window elapsed lies in
CycleTable(e) ==
  IF e \in 0..1999 THEN Only(LED_RED)
  ELSE IF e \in 2000..2499 THEN Only(LED_YELLOW)
  ELSE IF e \in 2500..4499 THEN Only(LED_GREEN)
  ELSE IF e \in 4500..5499
    THEN IF e \in (4500..4599) \cup (4800..4899) \cup (5100..5199)
           THEN Only(LED_BLINK)
           ELSE AllLow
  ELSE Only(LED_YELLOW)

\* floor(now / 500) is even exactly when now mod 1000 is below 500
BlinkVector(now) == IF U32Mod(now, 1000) < 500 THEN AllHigh ELSE AllLow

ResolverVector(off, em, bl, now, start) ==
  IF off THEN AllLow
  ELSE IF em THEN Only(LED_RED)
  ELSE IF bl THEN BlinkVector(now)
  ELSE CycleTable(Elapsed(now, start))

NormalMode == ~systemOffMode /\ ~emergencyMode /\ ~blinkingMode
BlinkMode == ~systemOffMode /\ ~emergencyMode /\ blinkingMode

(***************************************************************************)
(* Claims                                                                  *)
(***************************************************************************)
\* C1: a completed tick has written the vector of the first matching rule in
\* the order shutdown > emergency > blink > normal: shutdown gives all off
\* whatever the other two flags are, emergency without shutdown gives red only
\* whatever blink is, the blink rule is taken only with both false and the
\* normal rule only with all three false.
C1_Priority ==
  TickDone =>
    /\ systemOffMode => (branch = "off" /\ pins = AllLow)
    /\ (~systemOffMode /\ emergencyMode) =>
         (branch = "emergency" /\ pins = Only(LED_RED))
    /\ branch = "blink" <=> BlinkMode
    /\ branch = "normal" <=> NormalMode

\* C1 witness: a tick completed with all three flags set
C1_Witness ==
  /\ TickDone
  /\ systemOffMode /\ emergencyMode /\ blinkingMode
  /\ pins = AllLow

\* C2: in normal mode a completed tick has written the table's vector for
\* elapsed = (now - cycleStart) mod 6000, lower bounds inclusive and upper
\* bounds exclusive.
C2_CycleTable ==
  (TickDone /\ NormalMode) => pins = CycleTable(Elapsed(clock, cycleStart))

\* C2 witness: a normal tick at elapsed 5199, the last millisecond of the third
\* flash, with a reference time that is not 0
C2_Witness ==
  /\ TickDone /\ NormalMode
  /\ cycleStart = ToU32(3)
  /\ clock = ToU32(5202)
  /\ pins = Only(LED_BLINK)

\* C7: in blink mode a completed tick has written one value to all four pins,
\* high when floor(now / 500) is even and low when it is odd, whatever
\* cycleStart is.
C7_BlinkParity ==
  (TickDone /\ BlinkMode) => pins = BlinkVector(clock)

\* C7 witness: a blink tick in the millisecond before a flip (now = 999, odd
\* half second, all low) with the reference time 3
C7_Witness ==
  /\ TickDone /\ BlinkMode
  /\ cycleStart = ToU32(3)
  /\ clock = ToU32(999)
  /\ pins = AllLow

\* C8: the vector a completed tick has written is the Resolver's function of
\* the flags, now and cycleStart alone: it does not depend on the pin levels
\* the tick started from.
C8_Memoryless ==
  TickDone =>
    pins = ResolverVector(systemOffMode, emergencyMode, blinkingMode, clock,
                          cycleStart)

\* C8 witness: a normal tick in the yellow window
C8_Witness ==
  /\ TickDone /\ NormalMode
  /\ clock = ToU32(2100)
  /\ pins = Only(LED_YELLOW)

\* C3: the first two falling edges on the emergency input, whenever they come
\* after startup, produce one toggle of the flag when they are less than
\* 200 ms apart and two toggles when they are 200 ms or more apart.
C3_TwoEdges ==
  edgeObs.n = 2 => edgeObs.toggles = (IF edgeObs.apart THEN 2 ELSE 1)

\* C4: the polls taken within the 50 ms of a bounce sequence high, low, high,
\* low of the polled button accept at most one toggle of the blink flag.
C4_OneTogglePerBounce == seq.toggles <= 1

\* C4 witness: the sequence is complete (second low) 50 ms after it began, its
\* first low was accepted as a toggle and the poll of this instant has sampled
\* the second low
C4_Witness ==
  /\ seq.phase = 4
  /\ seq.toggles = 1
  /\ lastBlinkingDebounceTime = seq.start
  /\ clock = U32Add(seq.start, ToU32(50))
  /\ pc = "loopEnd"
  /\ lastBlinkingButtonState = LOW

\* C5: a tick during which no toggle was accepted has written the Resolver's
\* vector for the mode state as it is now, at the time the tick read (line
\* 130 or 139), and an accepted toggle waits at
\* most one tick interval (100 ms) for the tick that picks it up to start.
C5_OneTickLag ==
  /\ (observer = "lag" /\ TickDone /\ ~toggledInTick) =>
       pins = ResolverVector(systemOffMode, emergencyMode, blinkingMode,
                             tickNow, cycleStart)
  /\ pending # NoToggle => U32Le(U32Sub(clock, pending[1]), ToU32(100))

\* C5 witness: the blink flag was toggled by the poll 50 ms before this tick
\* started, and the tick, undisturbed, has written the blink vector of its
\* time (all on)
C5_Witness ==
  /\ observer = "lag" /\ TickDone /\ ~toggledInTick
  /\ blinkingMode /\ ~systemOffMode /\ ~emergencyMode
  /\ tickNow = U32Add(lastBlinkingDebounceTime, ToU32(50))
  /\ pins = AllHigh

\* C6: after a completed tick the pins hold one of the six complete vectors:
\* all off, red only, yellow only, green only, blink-output only, all on.
C6_CompleteVectors ==
  TickDone =>
    pins \in {AllLow, Only(LED_RED), Only(LED_YELLOW), Only(LED_GREEN),
              Only(LED_BLINK), AllHigh}

\* C6 witness: the emergency flag was set during the green window and a tick
\* has since replaced green by red
C6_Witness ==
  /\ TickDone
  /\ emergencyMode /\ ~systemOffMode
  /\ Elapsed(clock, cycleStart) \in 2500..4499
  /\ pins = Only(LED_RED)

\* no tick has started since setup() returned
SetupDone == pc = "execute" /\ branch = "none"
\* the first run of the task has made its writes
FirstTickDone == TickDone /\ iPreviousMillis = ToU32(0)

\* C9: the step that completes setup() leaves all four outputs low, the three
\* flags false and cycleStart equal to the millisecond time of that moment;
\* until the first tick the outputs and the flags stay so, and the first tick
\* is a normal-mode tick in phase 0 of the cycle, no more than the counter's
\* ticks since setup() after its start, and writes red.
C9_Startup ==
  [][/\ (pc = "L98" /\ pc' = "execute") =>
          /\ pins' = AllLow
          /\ ~emergencyMode' /\ ~systemOffMode' /\ ~blinkingMode'
          /\ cycleStart' = clock'
     /\ SetupDone' =>
          /\ pins' = AllLow
          /\ ~emergencyMode' /\ ~systemOffMode' /\ ~blinkingMode'
     /\ FirstTickDone' =>
          /\ ~emergencyMode' /\ ~systemOffMode' /\ ~blinkingMode'
          /\ branch' = "normal"
          /\ elapsed' \in 0..ClockStep
          /\ elapsed' = Elapsed(tickNow', cycleStart')
          /\ pins' = Only(LED_RED)
    ]_vars

\* C9 witness: setup() ran 50 ms after power-on, the counter ticked before
\* the first pass of loop(), and the first tick has written red
C9_Witness ==
  /\ FirstTickDone
  /\ cycleStart = ToU32(50)
  /\ tickNow = ToU32(100)
  /\ pins = Only(LED_RED)

\* C10 as stated: no step ever makes a debounce timestamp smaller, the wrap
\* of the 32-bit counters included.
C10_Monotonic ==
  [][/\ U32Le(lastEmergencyInterruptTime, lastEmergencyInterruptTime')
     /\ U32Le(lastResetInterruptTime, lastResetInterruptTime')
     /\ U32Le(lastBlinkingDebounceTime, lastBlinkingDebounceTime')]_vars

\* C10 amended: no step makes a debounce timestamp smaller unless the 32-bit
\* counter it is read from (micros() for the two edge triggers, millis() for
\* the polled button) has wrapped since that timestamp was stored.
C10_MonotonicUntilWrap ==
  [][/\ ~wrapped.em =>
          U32Le(lastEmergencyInterruptTime, lastEmergencyInterruptTime')
     /\ ~wrapped.rs =>
          U32Le(lastResetInterruptTime, lastResetInterruptTime')
     /\ ~wrapped.bl =>
          U32Le(lastBlinkingDebounceTime, lastBlinkingDebounceTime')]_vars

\* C10 witness: before any counter has wrapped, the emergency and the reset
\* trigger were each accepted at 4294700 ms and again at 4294900 ms (both
\* flags are back to false): each of the two timestamps of 4294700 ms was
\* overwritten by the larger one of 4294900 ms
C10_Witness ==
  /\ ~emergencyMode /\ ~systemOffMode
  /\ clock = ToU32(4294900)
  /\ lastEmergencyInterruptTime = U32Mul1000(ToU32(4294900))
  /\ lastResetInterruptTime = U32Mul1000(ToU32(4294900))
  /\ ~wrapped.em /\ ~wrapped.rs /\ ~wrapped.bl

\* C11: the elapsed value the normal branch computes, (now - cycleStart) mod
\* 6000 on the 32-bit unsigned counter, lies in [0, 6000), also when now has
\* wrapped past cycleStart.
C11_ElapsedInRange ==
  branch = "normal" => elapsed \in 0..(cycleDuration - 1)

\* C11 witness: a normal tick at now = 1 with cycleStart = 3: the counter has
\* wrapped, now - cycleStart is 2^32 - 2 and elapsed is 5294
C11_Witness ==
  /\ TickDone /\ branch = "normal"
  /\ cycleStart = ToU32(3)
  /\ clock = ToU32(1)
  /\ elapsed = 5294

\* C12: from one millisecond to the next, the elapsed value of the normal
\* branch goes from e to (e + 1) mod 6000, also where the millisecond counter
\* or the difference now - cycleStart overflows back to 0.
C12_NoDrift ==
  [][(pc = "L129" /\ branch = "normal" /\ branch' = "normal") =>
       elapsed' = (elapsed + 1) % cycleDuration]_vars

\* C13: an edge handled by emergencyISR or resetISR is accepted exactly when
\* 200 ms or more have passed since that trigger's last accepted toggle (also
\* across wraps of the microsecond counter): then the flag is toggled and the
\* timestamp is the time of the edge; otherwise neither is changed.
C13_AcceptIff ==
  acceptObs.n = 1 =>
    IF acceptObs.due
      THEN acceptObs.toggled /\ acceptObs.stored
      ELSE ~acceptObs.toggled /\ acceptObs.kept

\* C14: every call of pollBlinkingButton leaves the last-observed level equal
\* to the level it sampled, accepted toggle or not; the blink flag changes
\* only in a call that finds the previous level high, the sampled level low
\* and more than 50 ms passed since the last accepted toggle; so once a low
\* level has been observed, no call toggles the flag while the button stays
\* low.
C14_PollFrame ==
  [][/\ (pc = "poll" /\ pc' = "loopEnd") =>
          lastBlinkingButtonState' = buttonBlinking
     /\ blinkingMode' # blinkingMode =>
          /\ pc = "poll" /\ pc' = "loopEnd"
          /\ lastBlinkingButtonState = HIGH
          /\ buttonBlinking = LOW
          /\ U32Lt(ToU32(50), U32Sub(clock, lastBlinkingDebounceTime))
     /\ (lastBlinkingButtonState = LOW /\ buttonBlinking = LOW) =>
          blinkingMode' = blinkingMode]_vars

\* C14 witness: a press was accepted, the button bounced high and low again
\* within the window, and 100 ms after the accepted toggle the button is still
\* low, observed low, and the flag has changed once only
C14_Witness ==
  /\ seq.phase = 4
  /\ seq.toggles = 1
  /\ blinkingMode
  /\ lastBlinkingDebounceTime = seq.start
  /\ clock = U32Add(seq.start, ToU32(100))
  /\ pc = "loopEnd"
  /\ buttonBlinking = LOW
  /\ lastBlinkingButtonState = LOW

\* the timed windows of the normal cycle in order, numbered 0..9: red, yellow,
\* green, first flash, pause, second flash, pause, third flash, pause, yellow
CycleWindow(e) ==
  IF e < 2000 THEN 0
  ELSE IF e < 2500 THEN 1
  ELSE IF e < 4500 THEN 2
  ELSE IF e < 4600 THEN 3
  ELSE IF e < 4800 THEN 4
  ELSE IF e < 4900 THEN 5
  ELSE IF e < 5100 THEN 6
  ELSE IF e < 5200 THEN 7
  ELSE IF e < 5500 THEN 8
  ELSE 9
\* the two yellow windows and the three flash windows
TimedWindows == {1, 3, 5, 7, 9}
\* the windows that lie between window a and the later window b of the cycle
WindowsBetween(a, b) == {(a + k) % 10 : k \in 1..(((b - a + 10) % 10) - 1)}

\* C15: in normal mode no yellow window and no flash window passes without a
\* tick: from one normal tick to the next, the elapsed value stays in its
\* window or moves on without jumping over one of them.
C15_EveryWindowTicked ==
  [][(pc = "L129" /\ branch = "normal" /\ branch' = "normal") =>
       WindowsBetween(CycleWindow(elapsed), CycleWindow(elapsed'))
         \cap TimedWindows = {}]_vars

\* C16: a step that changes emergencyMode or lastEmergencyInterruptTime is an
\* edge emergencyISR accepts, and changes no other flag, no other debounce
\* state, not cycleStart and no pin; likewise resetISR for systemOffMode and
\* lastResetInterruptTime; blinkingMode, lastBlinkingDebounceTime and
\* lastBlinkingButtonState change only in the poll, which changes nothing of
\* the other two triggers; and no step of updateTrafficLights changes a flag,
\* any debounce state or cycleStart.
C16_SingleWriter ==
  [][/\ (emergencyMode' # emergencyMode
           \/ lastEmergencyInterruptTime' # lastEmergencyInterruptTime) =>
          /\ EmergencyAttached
          /\ EdgeAccept(micros(usec'), lastEmergencyInterruptTime)
          /\ emergencyMode' = ~emergencyMode
          /\ lastEmergencyInterruptTime' = micros(usec')
          /\ UNCHANGED <<systemOffMode, blinkingMode, lastResetInterruptTime,
                         lastBlinkingDebounceTime, lastBlinkingButtonState,
                         cycleStart, pins>>
     /\ (systemOffMode' # systemOffMode
           \/ lastResetInterruptTime' # lastResetInterruptTime) =>
          /\ ResetAttached
          /\ EdgeAccept(micros(usec'), lastResetInterruptTime)
          /\ systemOffMode' = ~systemOffMode
          /\ lastResetInterruptTime' = micros(usec')
          /\ UNCHANGED <<emergencyMode, blinkingMode, lastEmergencyInterruptTime,
                         lastBlinkingDebounceTime, lastBlinkingButtonState,
                         cycleStart, pins>>
     /\ (blinkingMode' # blinkingMode
           \/ lastBlinkingDebounceTime' # lastBlinkingDebounceTime
           \/ lastBlinkingButtonState' # lastBlinkingButtonState) =>
          /\ pc = "poll" /\ pc' = "loopEnd"
          /\ UNCHANGED <<emergencyMode, systemOffMode, lastEmergencyInterruptTime,
                         lastResetInterruptTime, cycleStart, pins>>
     /\ (InTick /\ (pc' # pc \/ wq' # wq)) =>
          UNCHANGED <<flagVars, stampVars, lastBlinkingButtonState, cycleStart>>
    ]_vars

\* C16 witness: the emergency and the shutdown flag were set by edges accepted
\* at different instants, and a tick has since written the shutdown vector
C16_Witness ==
  /\ TickDone /\ branch = "off"
  /\ emergencyMode /\ systemOffMode
  /\ lastEmergencyInterruptTime # lastResetInterruptTime
  /\ pins = AllLow

\* C17: cycleStart keeps the value setup() captured (0 in the resumed
\* program) through every toggle, and a normal-mode tick after the flags have
\* returned to false writes the vector of the uninterrupted cycle for the
\* now it read at line 139.
C17_CycleKept ==
  /\ cycleStart = ToU32(0)
  /\ (observer = "lag" /\ TickDone /\ NormalMode /\ ~toggledInTick) =>
       pins = CycleTable(Elapsed(tickNow, ToU32(0)))

\* C17 witness: emergency mode was entered at 1900 ms, in the red window, and
\* left at 2100 ms; the tick at 2100 ms has written yellow
C17_Witness ==
  /\ observer = "lag" /\ TickDone /\ NormalMode /\ ~toggledInTick
  /\ lastEmergencyInterruptTime = U32Mul1000(ToU32(2100))
  /\ tickNow = ToU32(2100)
  /\ pins = Only(LED_YELLOW)

\* the outputs a pin vector has high
Lit(v) == {q \in LedPins : v[q] = HIGH}
\* what may follow what in red, yellow, green, blink-output flashes (with
\* all off between the flashes), yellow, red
MayFollow(a, b) ==
  \/ b = a
  \/ a = {LED_RED} /\ b = {LED_YELLOW}
  \/ a = {LED_YELLOW} /\ b \in {{LED_GREEN}, {LED_RED}}
  \/ a = {LED_GREEN} /\ b = {LED_BLINK}
  \/ a = {LED_BLINK} /\ b \in {{}, {LED_YELLOW}}
  \/ a = {} /\ b \in {{LED_BLINK}, {LED_YELLOW}}

\* C18 (the order of the free-running cycle): while the flags stay false, a
\* normal tick that follows a normal tick writes either the same output or
\* the next one in the order red, yellow, green, blink-output flashes, yellow,
\* red.
C18_CycleOrder ==
  [][(pc = "L129" /\ branch = "normal" /\ branch' = "normal"
        /\ pins = CycleTable(elapsed)) =>
       MayFollow(Lit(pins), Lit(ApplyWrites(pins, wq')))]_vars

\* the rule the priority chain selects for a mode state
ChainBranch(off, em, bl) ==
  IF off THEN "off"
  ELSE IF em THEN "emergency"
  ELSE IF bl THEN "blink"
  ELSE "normal"

\* C19 as stated: the branch a tick has selected is the priority-chain result
\* for a mode state (the three flags together) that held at some instant
\* since the tick was entered.
C19_SnapshotHeld ==
  (observer = "race" /\ pc = "write") =>
    \E m \in seen : branch = ChainBranch(m[1], m[2], m[3])

\* C19 amended: the branch a tick has selected is the priority-chain result
\* for three flag values each of which its own flag held at some instant since
\* the tick was entered; the three need not have held together.
C19_ValuesHeld ==
  (observer = "race" /\ pc = "write") =>
    \E o \in {m[1] : m \in seen}, e \in {m[2] : m \in seen},
       b \in {m[3] : m \in seen} : branch = ChainBranch(o, e, b)

\* C19 witness: handlers ran between the reads of a tick, which has selected
\* the normal branch although shutdown or emergency was true at every instant
\* since it was entered
C19_Witness ==
  /\ observer = "race" /\ pc = "write"
  /\ branch = "normal"
  /\ Cardinality(seen) > 1
  /\ \A m \in seen : m[1] \/ m[2]

\* blink mode has never been entered: the flag is false and no toggle of it
\* was ever accepted
BlinkNeverOn == ~blinkingMode /\ lastBlinkingDebounceTime = ToU32(0)

\* C20: at every instant, between the pin writes of a tick included, at most
\* one of red, yellow and green is high outside blink mode, and a write that
\* drives a high output low does so only when the tick leaves it low.
C20_NoGlitch ==
  [][/\ BlinkNeverOn' =>
          Cardinality(Lit(pins') \cap {LED_RED, LED_YELLOW, LED_GREEN}) <= 1
     /\ (pc = "write" /\ wq # << >>) =>
          \A q \in LedPins :
            (pins[q] = HIGH /\ pins'[q] = LOW) => ApplyWrites(pins, wq)[q] = LOW
    ]_vars

====
